---- MODULE Spec2Model ----
(***************************************************************************)
(* Credit ledger of the recognition service: students, recognitions,       *)
(* endorsements, redemptions and monthly resets (src/src/services.py,      *)
(* src/src/app.py, src/src/models.py).                                     *)
(*                                                                         *)
(* Every HTTP handler (and the scheduled job) is one atomic action in Spec: *)
(* it reads the tables, validates, writes and commits.  The response of a  *)
(* handler is the status field of the operator that models it; a call that *)
(* is refused changes no variable.                                         *)
(*                                                                         *)
(* Row ids are positions in the table's sequence (autoincrement keys, no   *)
(* row is ever deleted).  Student.name, Recognition.message and the        *)
(* created_at of endorsements and redemptions are never read by the        *)
(* services and are left out.                                              *)
(*                                                                         *)
(* A DateTime is [year, month, day, tick]; tick stands for the time of day *)
(* and grows with every datetime.utcnow() the code stamps into a           *)
(* recognition or a reset, so these times are totally ordered in the order *)
(* the code produced them.  The calendar is followed on the 1st and the    *)
(* 28th of each month, starting on 2024-12-01.                             *)
(*                                                                         *)
(* SpecConcurrentTransfers, SpecConcurrentResets and SpecFailingResets    *)
(* split a call into the steps between which another thread can run or a  *)
(* commit can fail: the session loads rows, the code checks and assigns   *)
(* them in memory, and the commit writes the assigned columns.            *)
(* SpecIdsAsSent sends the ids of POST /recognitions as JSON numbers or   *)
(* as JSON strings, the way the endpoint passes them on.                  *)
(***************************************************************************)
EXTENDS Integers, Sequences, FiniteSets, TLC

\* ---- bounds of the model ------------------------------------------------
MaxStudents == 3
MaxRows == 3
MaxDays == 3
MaxSteps == 7

\* request inputs
IdInputs == 1..MaxStudents
RecIdInputs == 1..MaxRows
CreditInputs == {-30, 0, 100}
RedeemInputs == {0, 70}

\* ---- program constants --------------------------------------------------
DefaultBalance == 100
MonthlyLimit == 100
BaseAllowance == 100
MaxCarryForward == 50
RupeesPerCredit == 5

VARIABLES students, recognitions, endorsements, redemptions,
          monthly_reset_logs, now, threads

ledger == <<students, recognitions, endorsements, redemptions, monthly_reset_logs>>
vars == <<students, recognitions, endorsements, redemptions, monthly_reset_logs, now, threads>>

\* ---- threads ------------------------------------------------------------
\* The threads that can be inside a service call at the same time (request
\* threads of the server, the thread of the BackgroundScheduler).  A thread
\* is Idle, or holds the rows its SQLAlchemy session has loaded.  In Spec
\* every call runs to its commit in one step and the threads stay Idle.
Threads == {"t1", "t2"}
Idle == [pc |-> "idle"]

\* ---- time ---------------------------------------------------------------
None == [year |-> 0, month |-> 0, day |-> 0, tick |-> 0]

\* datetime < datetime
DateTimeLess(a, b) ==
    \/ a.year < b.year
    \/ a.year = b.year /\ a.month < b.month
    \/ a.year = b.year /\ a.month = b.month /\ a.day < b.day
    \/ a.year = b.year /\ a.month = b.month /\ a.day = b.day /\ a.tick < b.tick

\* dt.replace(day=1, hour=0, minute=0, second=0, microsecond=0)
MonthStart(dt) == [year |-> dt.year, month |-> dt.month, day |-> 1, tick |-> 0]

\* the clock after one more datetime.utcnow() has been stamped
Stamped(t) == [t EXCEPT !.tick = @ + 1]

\* calendar steps (1st -> 28th -> 1st of the next month) since 2024-12-01
ElapsedDays(t) ==
    ((t.year - 2024) * 12 + (t.month - 12)) * 2 + (IF t.day = 1 THEN 0 ELSE 1)

\* ---- rows ---------------------------------------------------------------
Min(a, b) == IF a < b THEN a ELSE b

NewStudent ==
    [current_balance |-> DefaultBalance,
     credits_received_total |-> 0,
     monthly_sent_this_month |-> 0,
     last_credit_reset |-> None]

\* rows written by transfers, endorsements and redemptions so far
Rows == Len(recognitions) + Len(endorsements) + Len(redemptions)

\* committed writes and calendar steps so far
Steps == Len(students) + Rows + Len(monthly_reset_logs) + ElapsedDays(now)

\* ---- services.create_recognition ----------------------------------------
\* variant of Rule 2 with the comparison turned around
exceeds_balance_reversed(sender, credits) == sender.current_balance > credits

\* Rule 2: "if credits > sender.current_balance"
exceeds_balance(sender, credits) == credits > sender.current_balance

\* variants of Rule 3: the limit itself is refused; the amount is left out
exceeds_monthly_limit_inclusive(sender, credits) ==
    sender.monthly_sent_this_month + credits >= MonthlyLimit

exceeds_monthly_limit_ignoring_credits(sender, credits) ==
    sender.monthly_sent_this_month > MonthlyLimit

\* Rule 3: "if sender.monthly_sent_this_month + credits > 100"
exceeds_monthly_limit(sender, credits) ==
    sender.monthly_sent_this_month + credits > MonthlyLimit

\* variant of the chain with Rule 3 checked before Rule 2
validate_recognition_limit_first(sender_id, receiver_id, credits) ==
    IF sender_id \notin DOMAIN students THEN "NotFoundSender"
    ELSE IF receiver_id \notin DOMAIN students THEN "NotFoundReceiver"
    ELSE IF sender_id = receiver_id THEN "SelfTransfer"
    ELSE IF exceeds_monthly_limit(students[sender_id], credits) THEN "MonthlyLimitExceeded"
    ELSE IF exceeds_balance(students[sender_id], credits) THEN "InsufficientBalance"
    ELSE "ok"

\* the chain of raise statements: the reason of the first rule that fails
validate_recognition(sender_id, receiver_id, credits) ==
    IF sender_id \notin DOMAIN students THEN "NotFoundSender"
    ELSE IF receiver_id \notin DOMAIN students THEN "NotFoundReceiver"
    ELSE IF sender_id = receiver_id THEN "SelfTransfer"
    ELSE IF exceeds_balance(students[sender_id], credits) THEN "InsufficientBalance"
    ELSE IF exceeds_monthly_limit(students[sender_id], credits) THEN "MonthlyLimitExceeded"
    ELSE "ok"

\* variant of the transaction that forgets to debit the sender
transfer_without_debit(sender_id, receiver_id, credits) ==
    [students EXCEPT
       ![sender_id].monthly_sent_this_month = @ + credits,
       ![receiver_id].current_balance = @ + credits,
       ![receiver_id].credits_received_total = @ + credits]

\* "All validations passed - perform the transaction"
transfer(sender_id, receiver_id, credits) ==
    [students EXCEPT
       ![sender_id].current_balance = @ - credits,
       ![sender_id].monthly_sent_this_month = @ + credits,
       ![receiver_id].current_balance = @ + credits,
       ![receiver_id].credits_received_total = @ + credits]

\* variant that debits the sender before Rule 3 and keeps the debit when it fails
create_recognition_debit_first(sender_id, receiver_id, credits) ==
    LET status == validate_recognition(sender_id, receiver_id, credits) IN
    IF status = "MonthlyLimitExceeded"
    THEN [status |-> status,
          students |-> [students EXCEPT ![sender_id].current_balance = @ - credits],
          recognitions |-> recognitions]
    ELSE IF status # "ok"
    THEN [status |-> status, students |-> students, recognitions |-> recognitions]
    ELSE [status |-> "ok",
          students |-> transfer(sender_id, receiver_id, credits),
          recognitions |->
             Append(recognitions,
                    [sender_id |-> sender_id, receiver_id |-> receiver_id,
                     credits |-> credits, created_at |-> now])]

create_recognition(sender_id, receiver_id, credits) ==
    LET status == validate_recognition(sender_id, receiver_id, credits) IN
    IF status # "ok"
    THEN [status |-> status, students |-> students, recognitions |-> recognitions]
    ELSE [status |-> "ok",
          students |-> transfer(sender_id, receiver_id, credits),
          recognitions |->
             Append(recognitions,
                    [sender_id |-> sender_id, receiver_id |-> receiver_id,
                     credits |-> credits, created_at |-> now])]

\* ---- app.create_student -------------------------------------------------
create_student ==
    /\ Len(students) < MaxStudents
    /\ Steps < MaxSteps
    /\ students' = Append(students, NewStudent)
    /\ UNCHANGED <<recognitions, endorsements, redemptions, monthly_reset_logs, now, threads>>

\* ---- app.create_recognition_endpoint ------------------------------------
\* the response of POST /recognitions and the rows it leaves committed
\* "if credits <= 0: return 400"
credits_not_positive(credits) == credits <= 0

post_recognitions(sender_id, receiver_id, credits) ==
    IF credits_not_positive(credits)
    THEN [status |-> "InvalidAmount", students |-> students, recognitions |-> recognitions]
    ELSE create_recognition(sender_id, receiver_id, credits)

create_recognition_endpoint ==
    \E sender_id \in IdInputs, receiver_id \in IdInputs, credits \in CreditInputs :
       LET out == post_recognitions(sender_id, receiver_id, credits) IN
       /\ out.status = "ok" => Rows < MaxRows /\ Steps < MaxSteps
       /\ students' = out.students
       /\ recognitions' = out.recognitions
       /\ now' = IF out.status = "ok" THEN Stamped(now) ELSE now
       /\ UNCHANGED <<endorsements, redemptions, monthly_reset_logs, threads>>

\* ---- services.endorse ---------------------------------------------------
\* variant of the lookup that filters by recognition only
existing_endorsement_any_endorser(recognition_id, endorser_id) ==
    \E i \in DOMAIN endorsements : endorsements[i].recognition_id = recognition_id

\* Endorsement.query.filter_by(recognition_id, endorser_id).first() is a row
existing_endorsement(recognition_id, endorser_id) ==
    \E i \in DOMAIN endorsements :
       /\ endorsements[i].recognition_id = recognition_id
       /\ endorsements[i].endorser_id = endorser_id

endorse(recognition_id, endorser_id) ==
    IF recognition_id \notin DOMAIN recognitions
    THEN [status |-> "NotFoundRecognition", endorsements |-> endorsements]
    ELSE IF endorser_id \notin DOMAIN students
    THEN [status |-> "NotFoundEndorser", endorsements |-> endorsements]
    ELSE IF existing_endorsement(recognition_id, endorser_id)
    THEN [status |-> "DuplicateEndorsement", endorsements |-> endorsements]
    ELSE [status |-> "ok",
          endorsements |->
             Append(endorsements,
                    [recognition_id |-> recognition_id, endorser_id |-> endorser_id])]

\* ---- app.endorse_recognition --------------------------------------------
endorse_recognition ==
    \E recognition_id \in RecIdInputs, endorser_id \in IdInputs :
       LET out == endorse(recognition_id, endorser_id) IN
       /\ out.status = "ok" => Rows < MaxRows /\ Steps < MaxSteps
       /\ endorsements' = out.endorsements
       /\ UNCHANGED <<students, recognitions, redemptions, monthly_reset_logs, now, threads>>

\* ---- services.redeem ----------------------------------------------------
\* variant that takes the redeemed credits off the lifetime total as well
deduct_from_total(student_id, credits_to_redeem) ==
    [students EXCEPT ![student_id].current_balance = @ - credits_to_redeem,
                     ![student_id].credits_received_total = @ - credits_to_redeem]

\* "student.current_balance -= credits_to_redeem"
deduct(student_id, credits_to_redeem) ==
    [students EXCEPT ![student_id].current_balance = @ - credits_to_redeem]

\* variant that divides by the rate instead of multiplying
voucher_value_inr_divided(credits_to_redeem) == credits_to_redeem \div RupeesPerCredit

\* "voucher_value_inr = credits_to_redeem * 5"
voucher_value_inr(credits_to_redeem) == credits_to_redeem * RupeesPerCredit

redeem(student_id, credits_to_redeem) ==
    IF student_id \notin DOMAIN students
    THEN [status |-> "NotFoundStudent", students |-> students, redemptions |-> redemptions]
    ELSE IF credits_to_redeem <= 0
    THEN [status |-> "InvalidAmount", students |-> students, redemptions |-> redemptions]
    ELSE IF students[student_id].current_balance < credits_to_redeem
    THEN [status |-> "InsufficientBalance", students |-> students, redemptions |-> redemptions]
    ELSE [status |-> "ok",
          students |-> deduct(student_id, credits_to_redeem),
          redemptions |->
             Append(redemptions,
                    [student_id |-> student_id,
                     credits_redeemed |-> credits_to_redeem,
                     voucher_value_inr |-> voucher_value_inr(credits_to_redeem)])]

\* ---- app.redeem_credits -------------------------------------------------
\* the response of POST /students/<id>/redeem and the rows it leaves committed
post_redeem(student_id, credits) ==
    IF credits <= 0
    THEN [status |-> "InvalidAmount", students |-> students, redemptions |-> redemptions]
    ELSE redeem(student_id, credits)

redeem_credits ==
    \E student_id \in IdInputs, credits \in RedeemInputs :
       LET out == post_redeem(student_id, credits) IN
       /\ out.status = "ok" => Rows < MaxRows /\ Steps < MaxSteps
       /\ students' = out.students
       /\ redemptions' = out.redemptions
       /\ UNCHANGED <<recognitions, endorsements, monthly_reset_logs, now, threads>>

\* ---- services.leaderboard -----------------------------------------------
\* A joined row is <<student id, recognition id, endorsement id>>; Null
\* stands for the NULL an outer join puts where nothing matched.
Null == 0

\* variant with an inner join: students without recognitions drop out
join_recognitions ==
    UNION {{<<s, r>> : r \in {x \in DOMAIN recognitions : recognitions[x].receiver_id = s}} :
             s \in DOMAIN students}

\* Student outer-joined with Recognition on receiver_id == Student.id
outerjoin_recognitions ==
    UNION {LET matched == {r \in DOMAIN recognitions : recognitions[r].receiver_id = s}
           IN IF matched = {} THEN {<<s, Null>>} ELSE {<<s, r>> : r \in matched} :
             s \in DOMAIN students}

\* ... outer-joined with Endorsement on recognition_id == Recognition.id
outerjoin_endorsements ==
    UNION {LET matched == {e \in DOMAIN endorsements :
                              endorsements[e].recognition_id = row[2]}
           IN IF matched = {} THEN {<<row[1], row[2], Null>>}
              ELSE {<<row[1], row[2], e>> : e \in matched} :
             row \in outerjoin_recognitions}

\* func.count(column.distinct()) over the rows of one group: NULLs are not counted
count_distinct(rows, column) == Cardinality({row[column] : row \in rows} \ {Null})

\* group_by(Student.id, ...): one result row per student of the join
group_by ==
    {LET rows == {row \in outerjoin_endorsements : row[1] = s}
     IN [student_id |-> s,
         credits_received_total |-> students[s].credits_received_total,
         recognition_count |-> count_distinct(rows, 2),
         endorsement_count |-> count_distinct(rows, 3)] :
       s \in {row[1] : row \in outerjoin_endorsements}}

\* order_by(credits_received_total.desc(), Student.id.asc())
RECURSIVE order_by(_)
order_by(results) ==
    IF results = {} THEN << >>
    ELSE LET first == CHOOSE a \in results : \A b \in results \ {a} :
                         \/ a.credits_received_total > b.credits_received_total
                         \/ /\ a.credits_received_total = b.credits_received_total
                            /\ a.student_id < b.student_id
         IN <<first>> \o order_by(results \ {first})

leaderboard(limit) ==
    LET results == order_by(group_by)
    IN SubSeq(results, 1, Min(limit, Len(results)))

\* ---- app.get_leaderboard (GET /leaderboard?limit=) ----------------------
LimitInputs == {0, 1, 2, 10}

get_leaderboard(limit) ==
    IF limit <= 0
    THEN [status |-> "InvalidLimit", leaderboard |-> << >>]
    ELSE [status |-> "ok", leaderboard |-> leaderboard(limit)]

\* ---- services.ensure_monthly_reset --------------------------------------
\* db is [students, monthly_reset_logs, now]; the call reads the clock once.
\* variant that compares the month numbers only
needs_reset_month_only(student, t) ==
    IF student.last_credit_reset = None
    THEN TRUE
    ELSE student.last_credit_reset.month < t.month

\* variant that compares the stored instant itself with the current instant
needs_reset_untruncated(student, t) ==
    IF student.last_credit_reset = None
    THEN TRUE
    ELSE DateTimeLess(student.last_credit_reset, t)

needs_reset(student, t) ==
    IF student.last_credit_reset = None
    THEN TRUE
    ELSE DateTimeLess(MonthStart(student.last_credit_reset), MonthStart(t))

\* variant of the reset that keeps the monthly counter
reset_student_keeps_sent(student, carry_forward, t) ==
    [student EXCEPT
       !.current_balance = BaseAllowance + carry_forward,
       !.last_credit_reset = t]

\* variant that adds the allowance to the whole old balance
reset_student_uncapped(student, carry_forward, t) ==
    [student EXCEPT
       !.current_balance = BaseAllowance + @,
       !.monthly_sent_this_month = 0,
       !.last_credit_reset = t]

\* the fields a performed reset assigns
reset_student(student, carry_forward, t) ==
    [student EXCEPT
       !.current_balance = BaseAllowance + carry_forward,
       !.monthly_sent_this_month = 0,
       !.last_credit_reset = t]

\* variant that files the log under the month that has just ended
reset_log_previous_month(student_id, carry_forward, t) ==
    [student_id |-> student_id,
     month |-> IF t.month = 1 THEN 12 ELSE t.month - 1,
     year |-> IF t.month = 1 THEN t.year - 1 ELSE t.year,
     carried_forward |-> carry_forward,
     created_at |-> t]

\* MonthlyResetLog(student_id, month=now.month, year=now.year, ...)
reset_log(student_id, carry_forward, t) ==
    [student_id |-> student_id,
     month |-> t.month,
     year |-> t.year,
     carried_forward |-> carry_forward,
     created_at |-> t]

ensure_monthly_reset(db, student_id) ==
    LET student == db.students[student_id]
        carry_forward == Min(MaxCarryForward, student.current_balance)
    IN IF ~needs_reset(student, db.now)
       THEN [performed |-> FALSE, db |-> db]
       ELSE [performed |-> TRUE,
             db |->
               [students |->
                  [db.students EXCEPT
                     ![student_id] = reset_student(student, carry_forward, db.now)],
                monthly_reset_logs |->
                  Append(db.monthly_reset_logs,
                         reset_log(student_id, carry_forward, db.now)),
                now |-> Stamped(db.now)]]

\* ---- services.run_monthly_reset_for_all_students ------------------------
\* the loop over Student.query.all(), from student i on, reset_count so far
\* variant of the loop that counts every student it visits
RECURSIVE reset_loop_counting_all(_, _, _)
reset_loop_counting_all(db, i, reset_count) ==
    IF i > Len(db.students)
    THEN [db |-> db, reset_count |-> reset_count]
    ELSE LET r == ensure_monthly_reset(db, i) IN
         reset_loop_counting_all(r.db, i + 1, reset_count + 1)

RECURSIVE reset_loop(_, _, _)
reset_loop(db, i, reset_count) ==
    IF i > Len(db.students)
    THEN [db |-> db, reset_count |-> reset_count]
    ELSE LET r == ensure_monthly_reset(db, i) IN
         reset_loop(r.db, i + 1, IF r.performed THEN reset_count + 1 ELSE reset_count)

run_monthly_reset_for_all_students ==
    reset_loop([students |-> students, monthly_reset_logs |-> monthly_reset_logs, now |-> now], 1, 0)

\* ---- app.run_monthly_reset (GET /admin/run-monthly-reset) ---------------
run_monthly_reset ==
    LET out == run_monthly_reset_for_all_students IN
    /\ Steps + out.reset_count <= MaxSteps
    /\ students' = out.db.students
    /\ monthly_reset_logs' = out.db.monthly_reset_logs
    /\ now' = out.db.now
    /\ UNCHANGED <<recognitions, endorsements, redemptions, threads>>

\* ---- app.create_app: the cron job of the 1st of each month --------------
monthly_credit_reset ==
    /\ now.day = 1
    /\ run_monthly_reset

\* ---- the calendar -------------------------------------------------------
NextDay(t) ==
    IF t.day < 28
    THEN [t EXCEPT !.day = 28]
    ELSE IF t.month = 12
    THEN [t EXCEPT !.year = @ + 1, !.month = 1, !.day = 1]
    ELSE [t EXCEPT !.month = @ + 1, !.day = 1]

AdvanceClock ==
    /\ ElapsedDays(now) < MaxDays
    /\ Steps < MaxSteps
    /\ now' = NextDay(now)
    /\ UNCHANGED <<ledger, threads>>

Init ==
    /\ students = << >>
    /\ recognitions = << >>
    /\ endorsements = << >>
    /\ redemptions = << >>
    /\ monthly_reset_logs = << >>
    /\ now = [year |-> 2024, month |-> 12, day |-> 1, tick |-> 1]
    /\ threads = [t \in Threads |-> Idle]

Next ==
    \/ create_student
    \/ create_recognition_endpoint
    \/ endorse_recognition
    \/ redeem_credits
    \/ run_monthly_reset
    \/ monthly_credit_reset
    \/ AdvanceClock

Spec == Init /\ [][Next]_vars
\* ==== ids as the request carries them =====================================
\* create_recognition_endpoint hands data["sender_id"] and
\* data["receiver_id"] to the service as request.get_json() decoded them,
\* without int(): an id arrives as a JSON number or as a JSON string.  Spec
\* above sends numbers only; here both forms are sent.
JsonNumber(n) == [json |-> "number", value |-> n]
\* the string of the decimal digits of n
JsonString(n) == [json |-> "string", value |-> n]

JsonIdInputs == {JsonNumber(n) : n \in IdInputs} \cup {JsonString(n) : n \in IdInputs}

\* Student.query.get(ident): "WHERE students.id = ?"; the INTEGER affinity
\* of the column turns a string of digits into its number before comparing.
\* The answer is the id of the row found (the session holds one object per
\* row), or Null.
query_get(ident) == IF ident.value \in DOMAIN students THEN ident.value ELSE Null

\* what an INTEGER column stores for the value bound to it
stored_integer(ident) == ident.value

\* services.create_recognition on the values of the request: Rule 1
\* compares the two values as Python does (1 == "1" is False), the other
\* rules and the assignments work on the objects loaded
create_recognition_as_sent(sender_id, receiver_id, credits) ==
    LET sender == query_get(sender_id)
        receiver == query_get(receiver_id)
        refused(status) ==
           [status |-> status, students |-> students, recognitions |-> recognitions]
    IN IF sender = Null THEN refused("NotFoundSender")
       ELSE IF receiver = Null THEN refused("NotFoundReceiver")
       ELSE IF sender_id = receiver_id THEN refused("SelfTransfer")
       ELSE IF exceeds_balance(students[sender], credits)
       THEN refused("InsufficientBalance")
       ELSE IF exceeds_monthly_limit(students[sender], credits)
       THEN refused("MonthlyLimitExceeded")
       ELSE [status |-> "ok",
             students |-> transfer(sender, receiver, credits),
             recognitions |->
                Append(recognitions,
                       [sender_id |-> stored_integer(sender_id),
                        receiver_id |-> stored_integer(receiver_id),
                        credits |-> credits, created_at |-> now])]

\* POST /recognitions with ids of either JSON type
create_recognition_endpoint_as_sent ==
    \E sender_id \in JsonIdInputs, receiver_id \in JsonIdInputs, credits \in CreditInputs :
       LET out == IF credits_not_positive(credits)
                  THEN [status |-> "InvalidAmount", students |-> students,
                        recognitions |-> recognitions]
                  ELSE create_recognition_as_sent(sender_id, receiver_id, credits)
       IN /\ out.status = "ok" => Rows < MaxRows /\ Steps < MaxSteps
          /\ students' = out.students
          /\ recognitions' = out.recognitions
          /\ now' = IF out.status = "ok" THEN Stamped(now) ELSE now
          /\ UNCHANGED <<endorsements, redemptions, monthly_reset_logs, threads>>

NextIdsAsSent ==
    \/ create_student
    \/ create_recognition_endpoint_as_sent
    \/ redeem_credits
    \/ run_monthly_reset
    \/ AdvanceClock

SpecIdsAsSent == Init /\ [][NextIdsAsSent]_vars

\* ==== calls that interleave ===============================================
\* ---- services.create_recognition, step by step --------------------------
\* transfers between their validation and their commit
InFlight == {t \in Threads : threads[t].pc = "create_recognition"}

\* Student.query.get(sender_id), Student.query.get(receiver_id) and the
\* rule checks on the rows just loaded; a refused call changes nothing
create_recognition_load(t) ==
    \E sender_id \in IdInputs, receiver_id \in IdInputs, credits \in CreditInputs :
       /\ threads[t] = Idle
       /\ post_recognitions(sender_id, receiver_id, credits).status = "ok"
       /\ Rows + Cardinality(InFlight) < MaxRows
       /\ Steps + Cardinality(InFlight) < MaxSteps
       /\ threads' = [threads EXCEPT ![t] =
                        [pc |-> "create_recognition",
                         sender_id |-> sender_id,
                         receiver_id |-> receiver_id,
                         credits |-> credits,
                         sender |-> students[sender_id],
                         receiver |-> students[receiver_id]]]
       /\ UNCHANGED <<ledger, now>>

\* the assignments to the loaded objects, then db.session.commit(): the
\* UPDATEs carry the values computed in memory, the INSERT adds the row
create_recognition_commit(t) ==
    LET call == threads[t] IN
    /\ call.pc = "create_recognition"
    /\ students' =
          [students EXCEPT
             ![call.sender_id].current_balance =
                call.sender.current_balance - call.credits,
             ![call.sender_id].monthly_sent_this_month =
                call.sender.monthly_sent_this_month + call.credits,
             ![call.receiver_id].current_balance =
                call.receiver.current_balance + call.credits,
             ![call.receiver_id].credits_received_total =
                call.receiver.credits_received_total + call.credits]
    /\ recognitions' =
          Append(recognitions,
                 [sender_id |-> call.sender_id,
                  receiver_id |-> call.receiver_id,
                  credits |-> call.credits,
                  created_at |-> now])
    /\ now' = Stamped(now)
    /\ threads' = [threads EXCEPT ![t] = Idle]
    /\ UNCHANGED <<endorsements, redemptions, monthly_reset_logs>>

NextConcurrentTransfers ==
    \/ create_student
    \/ \E t \in Threads : create_recognition_load(t)
    \/ \E t \in Threads : create_recognition_commit(t)

SpecConcurrentTransfers == Init /\ [][NextConcurrentTransfers]_vars

\* ---- services.run_monthly_reset_for_all_students, step by step ----------
\* A run holds the student objects of its session (view), the index i of the
\* student the loop is at, whether that object is loaded, and whether the
\* session has committed: a commit expires every object of the session, so
\* the next attribute access reloads the row.  The count the run returns is
\* not kept.

\* resets the runs in progress may still write
RECURSIVE PendingResets(_)
PendingResets(ts) ==
    IF ts = {} THEN 0
    ELSE LET t == CHOOSE x \in ts : TRUE
         IN (IF threads[t].pc = "reset"
             THEN Len(threads[t].view) - threads[t].i + 1 ELSE 0)
            + PendingResets(ts \ {t})

\* "students = Student.query.all()"
run_query_all(t) ==
    /\ threads[t] = Idle
    /\ students # << >>
    /\ Steps + PendingResets(Threads) + Len(students) <= MaxSteps
    /\ threads' = [threads EXCEPT ![t] =
                     [pc |-> "reset", view |-> students, i |-> 1,
                      loaded |-> TRUE, committed |-> FALSE]]
    /\ UNCHANGED <<ledger, now>>

\* the reload of an expired student object on its first attribute access
run_refresh(t) ==
    LET run == threads[t] IN
    /\ run.pc = "reset"
    /\ ~run.loaded
    /\ threads' = [threads EXCEPT ![t].view[run.i] = students[run.i],
                                  ![t].loaded = TRUE]
    /\ UNCHANGED <<ledger, now>>

\* the loop moves on to the next student, or the run returns
next_student(run, committed) ==
    IF run.i = Len(run.view)
    THEN Idle
    ELSE [run EXCEPT !.i = @ + 1, !.committed = committed, !.loaded = ~committed]

\* the column an UPDATE leaves: the flush writes an attribute only when the
\* value assigned differs from the value loaded
flushed(assigned, loaded, stored) == IF assigned = loaded THEN stored ELSE assigned

\* ensure_monthly_reset(student) on the object of the session
run_ensure_monthly_reset(t) ==
    LET run == threads[t]
        student == run.view[run.i]
        carry_forward == Min(MaxCarryForward, student.current_balance)
        assigned == reset_student(student, carry_forward, now)
    IN /\ run.pc = "reset"
       /\ run.loaded
       /\ IF ~needs_reset(student, now)
          THEN /\ threads' = [threads EXCEPT ![t] = next_student(run, run.committed)]
               /\ UNCHANGED <<ledger, now>>
          ELSE /\ students' =
                     [students EXCEPT
                        ![run.i].current_balance =
                           flushed(assigned.current_balance, student.current_balance, @),
                        ![run.i].monthly_sent_this_month =
                           flushed(assigned.monthly_sent_this_month,
                                   student.monthly_sent_this_month, @),
                        ![run.i].last_credit_reset = assigned.last_credit_reset]
               /\ monthly_reset_logs' =
                     Append(monthly_reset_logs, reset_log(run.i, carry_forward, now))
               /\ now' = Stamped(now)
               /\ threads' = [threads EXCEPT ![t] = next_student(run, TRUE)]
               /\ UNCHANGED <<recognitions, endorsements, redemptions>>

\* the clock moves while no call is in progress
AdvanceClockBetweenCalls ==
    /\ \A t \in Threads : threads[t] = Idle
    /\ AdvanceClock

NextConcurrentResets ==
    \/ create_student
    \/ redeem_credits
    \/ AdvanceClockBetweenCalls
    \/ \E t \in Threads : run_query_all(t)
    \/ \E t \in Threads : run_refresh(t)
    \/ \E t \in Threads : run_ensure_monthly_reset(t)

SpecConcurrentResets == Init /\ [][NextConcurrentResets]_vars

\* ---- a commit that fails --------------------------------------------------
\* db.session.commit() in ensure_monthly_reset raises (the database is
\* locked, the connection is lost).  Nothing in ensure_monthly_reset or in
\* the loop of run_monthly_reset_for_all_students catches the exception: it
\* leaves the loop, and the request or the job ends.  The reset of this
\* student is not written; the commits of earlier students stay.
run_commit_fails(t) ==
    LET run == threads[t] IN
    /\ run.pc = "reset"
    /\ run.loaded
    /\ needs_reset(run.view[run.i], now)
    /\ threads' = [threads EXCEPT ![t] = Idle]
    /\ UNCHANGED <<ledger, now>>

\* one run at a time, any of whose commits may fail
NextFailingResets ==
    \/ create_student
    \/ redeem_credits
    \/ AdvanceClockBetweenCalls
    \/ run_query_all("t1")
    \/ run_refresh("t1")
    \/ run_ensure_monthly_reset("t1")
    \/ run_commit_fails("t1")

SpecFailingResets == Init /\ [][NextFailingResets]_vars

\* ==== properties ==========================================================
Students == DOMAIN students

\* sum of credits over the recognitions i of a set of row ids
RECURSIVE SumCredits(_)
SumCredits(ids) ==
    IF ids = {} THEN 0
    ELSE LET i == CHOOSE x \in ids : TRUE
         IN recognitions[i].credits + SumCredits(ids \ {i})

\* C1: every student's current_balance is >= 0 in every reachable state.
BalanceNonNegative ==
    \A s \in Students : students[s].current_balance >= 0

\* a student spent the whole balance on a transfer and a redemption took place
BalanceNonNegativeWitness ==
    /\ \E s \in Students : students[s].current_balance = 0
    /\ recognitions # << >>
    /\ redemptions # << >>
    /\ monthly_reset_logs # << >>

\* the step is a successful POST /recognitions with these arguments
TransferStep(s, r, c) ==
    LET out == post_recognitions(s, r, c) IN
    /\ recognitions' # recognitions
    /\ out.status = "ok"
    /\ students' = out.students
    /\ recognitions' = out.recognitions

\* C2: a successful createRecognition(s, r, c) debits the sender by c,
\* credits the receiver by c (sum of the two balances unchanged), adds c to
\* the sender's monthly_sent_this_month and to the receiver's
\* credits_received_total, adds exactly one Recognition and leaves every
\* other student unchanged.
TransferEffect ==
    [][\A s \in IdInputs, r \in IdInputs, c \in CreditInputs :
         (recognitions' # recognitions /\ TransferStep(s, r, c)) =>
            /\ s \in Students /\ r \in Students
            /\ DOMAIN students' = Students
            /\ students'[s].current_balance = students[s].current_balance - c
            /\ students'[r].current_balance = students[r].current_balance + c
            /\ students'[s].current_balance + students'[r].current_balance
                  = students[s].current_balance + students[r].current_balance
            /\ students'[s].monthly_sent_this_month
                  = students[s].monthly_sent_this_month + c
            /\ students'[r].credits_received_total
                  = students[r].credits_received_total + c
            /\ Len(recognitions') = Len(recognitions) + 1
            /\ SubSeq(recognitions', 1, Len(recognitions)) = recognitions
            /\ recognitions'[Len(recognitions')].sender_id = s
            /\ recognitions'[Len(recognitions')].receiver_id = r
            /\ recognitions'[Len(recognitions')].credits = c
            /\ \A o \in Students \ {s, r} : students'[o] = students[o]
            /\ UNCHANGED <<endorsements, redemptions, monthly_reset_logs>>
      ]_vars

\* transfers were committed in both directions between two students while a
\* third student, who took part in neither, was registered
TransferEffectWitness ==
    \E i \in DOMAIN recognitions, j \in DOMAIN recognitions, o \in Students :
       /\ recognitions[i].sender_id = recognitions[j].receiver_id
       /\ recognitions[j].sender_id = recognitions[i].receiver_id
       /\ DateTimeLess(recognitions[i].created_at, recognitions[j].created_at)
       /\ o \notin {recognitions[i].sender_id, recognitions[i].receiver_id}
       /\ students[o].last_credit_reset # None

\* C3: a createRecognition, endorse or redeem call that fails with a
\* validation failure commits nothing: students, recognitions, endorsements
\* and redemptions are what they were before the call.
FailureLeavesLedgerUnchanged ==
    /\ \A s \in IdInputs, r \in IdInputs, c \in CreditInputs :
          LET out == post_recognitions(s, r, c) IN
          out.status # "ok" =>
             out.students = students /\ out.recognitions = recognitions
    /\ \A rec \in RecIdInputs, s \in IdInputs :
          LET out == endorse(rec, s) IN
          out.status # "ok" => out.endorsements = endorsements
    /\ \A s \in IdInputs, c \in RedeemInputs :
          LET out == post_redeem(s, c) IN
          out.status # "ok" =>
             out.students = students /\ out.redemptions = redemptions

\* a transfer of more than the sender's balance, a duplicate endorsement and
\* a redemption of more than the balance are all rejected in one state
FailureLeavesLedgerUnchangedWitness ==
    /\ \E s \in Students, r \in Students, c \in CreditInputs :
          /\ c > students[s].current_balance
          /\ post_recognitions(s, r, c).status = "InsufficientBalance"
    /\ \E rec \in RecIdInputs, s \in IdInputs :
          endorse(rec, s).status = "DuplicateEndorsement"
    /\ \E s \in IdInputs, c \in RedeemInputs :
          post_redeem(s, c).status = "InsufficientBalance"

\* the failure reason the fixed order of checks yields
FirstFailingRule(s, r, c) ==
    CASE s \notin Students -> "NotFoundSender"
      [] s \in Students /\ r \notin Students -> "NotFoundReceiver"
      [] s \in Students /\ r \in Students /\ s = r -> "SelfTransfer"
      [] s \in Students /\ r \in Students /\ s # r
           /\ c > students[s].current_balance -> "InsufficientBalance"
      [] s \in Students /\ r \in Students /\ s # r
           /\ c <= students[s].current_balance
           /\ students[s].monthly_sent_this_month + c > 100 -> "MonthlyLimitExceeded"
      [] OTHER -> "ok"

\* C4: createRecognition reports the reason of the first failing check in
\* the order sender exists, receiver exists, sender # receiver, credits <=
\* balance, monthly total + credits <= 100; a transfer of a student to
\* themselves is a SelfTransfer whatever their balance or monthly total.
ChecksInOrder ==
    \A s \in IdInputs, r \in IdInputs, c \in CreditInputs :
       c > 0 =>
          /\ post_recognitions(s, r, c).status = FirstFailingRule(s, r, c)
          /\ (s = r /\ s \in Students) =>
                post_recognitions(s, r, c).status = "SelfTransfer"

\* a sender with no balance left and the monthly limit used up: the send to
\* another student fails both checks, the send to themselves is a SelfTransfer
ChecksInOrderWitness ==
    \E s \in Students, r \in Students, c \in CreditInputs :
       /\ s # r /\ c > 0
       /\ c > students[s].current_balance
       /\ students[s].monthly_sent_this_month + c > 100
       /\ post_recognitions(s, r, c).status = "InsufficientBalance"
       /\ post_recognitions(s, s, c).status = "SelfTransfer"
\* C5 as stated, read for calls between two distinct existing students:
\* whenever the sender's monthly total plus credits exceeds 100 the call fails
\* with MonthlyLimitExceeded, and whenever it equals 100 the call succeeds.
MonthlyBoundaryUnconditional ==
    \A s \in Students, r \in Students, c \in CreditInputs :
       (s # r /\ c > 0) =>
          /\ students[s].monthly_sent_this_month + c > 100 =>
                post_recognitions(s, r, c).status = "MonthlyLimitExceeded"
          /\ students[s].monthly_sent_this_month + c = 100 =>
                post_recognitions(s, r, c).status = "ok"

\* C5 (amended): between two distinct existing students and with credits <=
\* the sender's balance, a call with monthly total + credits > 100 fails with
\* MonthlyLimitExceeded and a call with monthly total + credits = 100 succeeds.
MonthlyBoundary ==
    \A s \in Students, r \in Students, c \in CreditInputs :
       (s # r /\ c > 0 /\ c <= students[s].current_balance) =>
          /\ students[s].monthly_sent_this_month + c > 100 =>
                post_recognitions(s, r, c).status = "MonthlyLimitExceeded"
          /\ students[s].monthly_sent_this_month + c = 100 =>
                post_recognitions(s, r, c).status = "ok"

\* a transfer brought a sender's monthly total to exactly 100, and a further
\* transfer the balance would cover is rejected with MonthlyLimitExceeded
MonthlyBoundaryWitness ==
    \E s \in Students, r \in Students, c \in CreditInputs :
       /\ s # r /\ c > 0 /\ c <= students[s].current_balance
       /\ students[s].monthly_sent_this_month = 100
       /\ \E i \in DOMAIN recognitions : recognitions[i].sender_id = s
       /\ post_recognitions(s, r, c).status = "MonthlyLimitExceeded"

\* C6: every student's monthly_sent_this_month is within 0..100.
MonthlySentInRange ==
    \A s \in Students :
       /\ students[s].monthly_sent_this_month >= 0
       /\ students[s].monthly_sent_this_month <= 100

\* a student who used up the monthly limit and still holds credits
MonthlySentInRangeWitness ==
    \E s \in Students :
       /\ students[s].monthly_sent_this_month = 100
       /\ students[s].current_balance >= 100

\* the recognitions a student sent since their last_credit_reset
SentSinceReset(s) ==
    {i \in DOMAIN recognitions :
        /\ recognitions[i].sender_id = s
        /\ \/ students[s].last_credit_reset = None
           \/ DateTimeLess(students[s].last_credit_reset, recognitions[i].created_at)}

\* C7: monthly_sent_this_month equals the sum of credits of the recognitions
\* the student sent since their last_credit_reset (all of them when it is null).
MonthlySentMatchesLedger ==
    \A s \in Students :
       students[s].monthly_sent_this_month = SumCredits(SentSinceReset(s))

\* a student sent credits, was reset, and sent credits again
MonthlySentMatchesLedgerWitness ==
    \E s \in Students :
       /\ students[s].last_credit_reset # None
       /\ \E i \in DOMAIN recognitions :
             /\ recognitions[i].sender_id = s
             /\ DateTimeLess(recognitions[i].created_at, students[s].last_credit_reset)
       /\ SentSinceReset(s) # {}

\* the recognitions a student sent in the calendar month of recognition i
SentInMonthOf(s, i) ==
    {j \in DOMAIN recognitions :
        /\ recognitions[j].sender_id = s
        /\ recognitions[j].created_at.year = recognitions[i].created_at.year
        /\ recognitions[j].created_at.month = recognitions[i].created_at.month}

\* C8: the recognitions one student sent within a single calendar month never
\* total more than 100 credits.
MonthlyCapPerCalendarMonth ==
    \A s \in Students, i \in DOMAIN recognitions :
       SumCredits(SentInMonthOf(s, i)) <= 100

\* the recognitions a student received
Received(s) == {i \in DOMAIN recognitions : recognitions[i].receiver_id = s}

\* C9: credits_received_total equals the sum of credits of the recognitions
\* the student received; no step decreases it, and steps that redeem, endorse
\* or reset leave it unchanged.
ReceivedTotalMatchesLedger ==
    /\ [](\A s \in Students :
            students[s].credits_received_total = SumCredits(Received(s)))
    /\ [][\A s \in Students :
            /\ students'[s].credits_received_total >= students[s].credits_received_total
            /\ (\/ redemptions' # redemptions
                \/ endorsements' # endorsements
                \/ monthly_reset_logs' # monthly_reset_logs)
               => students'[s].credits_received_total = students[s].credits_received_total
         ]_vars

\* a student received credits, redeemed some and was reset afterwards
ReceivedTotalMatchesLedgerWitness ==
    \E s \in Students :
       /\ students[s].credits_received_total > 0
       /\ \E i \in DOMAIN redemptions : redemptions[i].student_id = s
       /\ students[s].last_credit_reset # None
       /\ \E i \in Received(s) :
             DateTimeLess(recognitions[i].created_at, students[s].last_credit_reset)

\* C10: at most one Endorsement per (recognition_id, endorser_id); on an
\* existing recognition an existing student's endorse succeeds exactly when
\* that student has not endorsed it yet, whoever else has, fails with
\* DuplicateEndorsement otherwise, and once it succeeded it fails from then on.
OneEndorsementPerPair ==
    /\ [](/\ \A i \in DOMAIN endorsements, j \in DOMAIN endorsements :
               (/\ endorsements[i].recognition_id = endorsements[j].recognition_id
                /\ endorsements[i].endorser_id = endorsements[j].endorser_id) => i = j
          /\ \A rec \in DOMAIN recognitions, s \in Students :
               endorse(rec, s).status =
                  IF \E i \in DOMAIN endorsements :
                        endorsements[i] = [recognition_id |-> rec, endorser_id |-> s]
                  THEN "DuplicateEndorsement" ELSE "ok")
    /\ [][\A rec \in RecIdInputs, s \in IdInputs :
            (/\ endorsements' # endorsements
             /\ endorse(rec, s).status = "ok"
             /\ endorsements' = endorse(rec, s).endorsements)
            => (endorse(rec, s).status = "DuplicateEndorsement")'
         ]_vars

\* two different students endorsed the same recognition
OneEndorsementPerPairWitness ==
    \E i \in DOMAIN endorsements, j \in DOMAIN endorsements :
       /\ endorsements[i].recognition_id = endorsements[j].recognition_id
       /\ endorsements[i].endorser_id # endorsements[j].endorser_id
       /\ endorse(endorsements[i].recognition_id, endorsements[i].endorser_id).status
             = "DuplicateEndorsement"

\* the step is a successful POST /students/<id>/redeem with these arguments
RedeemStep(s, n) ==
    LET out == post_redeem(s, n) IN
    /\ redemptions' # redemptions
    /\ out.status = "ok"
    /\ students' = out.students
    /\ redemptions' = out.redemptions

\* C11: a successful redeem(student, n) has n > 0 and n <= the student's
\* current_balance, lowers that balance by exactly n, records exactly one
\* Redemption with voucher_value_inr = 5 * n, and leaves the student's
\* credits_received_total and monthly_sent_this_month, every other student
\* and every other table unchanged.
RedeemEffect ==
    [][\A s \in IdInputs, n \in RedeemInputs :
         (redemptions' # redemptions /\ RedeemStep(s, n)) =>
            /\ s \in Students
            /\ n > 0
            /\ n <= students[s].current_balance
            /\ DOMAIN students' = Students
            /\ students'[s].current_balance = students[s].current_balance - n
            /\ students'[s].credits_received_total = students[s].credits_received_total
            /\ students'[s].monthly_sent_this_month = students[s].monthly_sent_this_month
            /\ students'[s].last_credit_reset = students[s].last_credit_reset
            /\ \A o \in Students \ {s} : students'[o] = students[o]
            /\ Len(redemptions') = Len(redemptions) + 1
            /\ SubSeq(redemptions', 1, Len(redemptions)) = redemptions
            /\ redemptions'[Len(redemptions')] =
                  [student_id |-> s, credits_redeemed |-> n, voucher_value_inr |-> 5 * n]
            /\ UNCHANGED <<recognitions, endorsements, monthly_reset_logs>>
      ]_vars

\* a student who had both sent and received credits redeemed 70 of them for
\* a voucher of 350 while another student was registered
RedeemEffectWitness ==
    \E i \in DOMAIN redemptions :
       LET s == redemptions[i].student_id IN
       /\ redemptions[i].credits_redeemed = 70
       /\ redemptions[i].voucher_value_inr = 350
       /\ students[s].credits_received_total > 0
       /\ students[s].monthly_sent_this_month > 0
       /\ Students \ {s} # {}

\* the committed rows and the clock, as ensure_monthly_reset reads them
CurrentDb ==
    [students |-> students, monthly_reset_logs |-> monthly_reset_logs, now |-> now]

\* instant a lies in the calendar month of instant b
InMonthOf(a, b) == a.year = b.year /\ a.month = b.month

\* C12: of two ensureMonthlyReset calls for the same student in the same
\* calendar month only the first can perform a reset: called again right
\* after a call, or later in the month after any transfers and redemptions,
\* it reports "not reset" and leaves balance, monthly_sent_this_month,
\* last_credit_reset and the reset logs as they were; a call that does
\* perform a reset changes the student and the logs.
ResetIdempotent ==
    \A s \in Students :
       LET first == ensure_monthly_reset(CurrentDb, s)
           second == ensure_monthly_reset(first.db, s)
       IN /\ ~second.performed
          /\ second.db = first.db
          /\ first.performed =>
                /\ first.db.students[s] # students[s]
                /\ first.db.monthly_reset_logs # monthly_reset_logs
          /\ InMonthOf(students[s].last_credit_reset, now) =>
                /\ ~first.performed
                /\ first.db = CurrentDb

\* a student was reset (balance 150), then redeemed 70, received 100 and
\* sent 100, all in the month of the reset
ResetIdempotentWitness ==
    \E s \in Students :
       /\ InMonthOf(students[s].last_credit_reset, now)
       /\ students[s].current_balance = 80
       /\ students[s].monthly_sent_this_month = 100
       /\ students[s].credits_received_total = 100
       /\ \E i \in DOMAIN redemptions : redemptions[i].student_id = s
       /\ \E i \in DOMAIN monthly_reset_logs : monthly_reset_logs[i].student_id = s

\* the reset logs of student s appended by the step
NewLogsOf(s) ==
    {i \in DOMAIN monthly_reset_logs' \ DOMAIN monthly_reset_logs :
        monthly_reset_logs'[i].student_id = s}

\* C13: a performed reset of a student whose balance was b sets the balance
\* to 100 + min(50, b), monthly_sent_this_month to 0 and last_credit_reset
\* to the current instant, and logs carried_forward = min(50, b) under the
\* current month and year; so the balance after a reset lies in 100..150
\* and the carried amount in 0..50. Students that need no reset are left
\* alone.
ResetEffect ==
    [][monthly_reset_logs' # monthly_reset_logs =>
         /\ DOMAIN students' = Students
         /\ \A s \in Students :
              IF needs_reset(students[s], now)
              THEN LET b == students[s].current_balance
                       carry == IF b < 50 THEN b ELSE 50
                   IN /\ students'[s].current_balance = 100 + carry
                      /\ students'[s].current_balance \in 100..150
                      /\ students'[s].monthly_sent_this_month = 0
                      /\ students'[s].credits_received_total
                            = students[s].credits_received_total
                      /\ [students'[s].last_credit_reset EXCEPT !.tick = 0]
                            = [now EXCEPT !.tick = 0]
                      /\ now.tick <= students'[s].last_credit_reset.tick
                      /\ students'[s].last_credit_reset.tick < now'.tick
                      /\ \E i \in NewLogsOf(s) :
                            /\ NewLogsOf(s) = {i}
                            /\ monthly_reset_logs'[i].carried_forward = carry
                            /\ monthly_reset_logs'[i].carried_forward \in 0..50
                            /\ monthly_reset_logs'[i].month = now.month
                            /\ monthly_reset_logs'[i].year = now.year
                            /\ monthly_reset_logs'[i].created_at
                                  = students'[s].last_credit_reset
              ELSE /\ students'[s] = students[s]
                   /\ NewLogsOf(s) = {}
         /\ SubSeq(monthly_reset_logs', 1, Len(monthly_reset_logs)) = monthly_reset_logs
         /\ UNCHANGED <<recognitions, endorsements, redemptions>>
      ]_vars

\* one reset carried a balance of 30 forward in full (new balance 130) and
\* another capped the carry at 50
ResetEffectWitness ==
    \E i \in DOMAIN monthly_reset_logs, j \in DOMAIN monthly_reset_logs :
       /\ monthly_reset_logs[i].carried_forward = 30
       /\ students[monthly_reset_logs[i].student_id].current_balance = 130
       /\ monthly_reset_logs[j].carried_forward = 50
       /\ students[monthly_reset_logs[j].student_id].current_balance = 150

\* C14: runMonthlyResetForAllStudents returns exactly the number of
\* students it reset (one new log each); when it is done every student's
\* last_credit_reset lies in the current calendar month; run again at once
\* it returns 0 and changes nothing, and the same holds in any later state
\* of the month in which every registered student has been reset.
RunResetsAllOnce ==
    LET first == reset_loop(CurrentDb, 1, 0)
        second == reset_loop(first.db, 1, 0)
        reset == {s \in Students : first.db.students[s] # students[s]}
    IN /\ first.reset_count = Cardinality(reset)
       /\ reset = {s \in Students : needs_reset(students[s], now)}
       /\ Len(first.db.monthly_reset_logs)
             = Len(monthly_reset_logs) + first.reset_count
       /\ DOMAIN first.db.students = Students
       /\ \A s \in Students :
             InMonthOf(first.db.students[s].last_credit_reset, first.db.now)
       /\ InMonthOf(first.db.now, now)
       /\ second.reset_count = 0
       /\ second.db = first.db
       /\ (\A s \in Students : InMonthOf(students[s].last_credit_reset, now)) =>
             /\ first.reset_count = 0
             /\ first.db = CurrentDb

\* a run in a new month reset two students, one of them already reset in
\* an earlier month, and a further run would now reset nobody
RunResetsAllOnceWitness ==
    /\ reset_loop(CurrentDb, 1, 0).reset_count = 0
    /\ \E i, j, k \in DOMAIN monthly_reset_logs :
          /\ ~InMonthOf(monthly_reset_logs[i].created_at, now)
          /\ InMonthOf(monthly_reset_logs[j].created_at, now)
          /\ InMonthOf(monthly_reset_logs[k].created_at, now)
          /\ monthly_reset_logs[i].student_id = monthly_reset_logs[j].student_id
          /\ monthly_reset_logs[k].student_id # monthly_reset_logs[j].student_id

\* student a comes before student b in the ranking
RanksBefore(a, b) ==
    \/ students[a].credits_received_total > students[b].credits_received_total
    \/ /\ students[a].credits_received_total = students[b].credits_received_total
       /\ a < b

\* endorsements given to the recognitions student s received
EndorsementsReceived(s) ==
    {e \in DOMAIN endorsements : endorsements[e].recognition_id \in Received(s)}

\* C15: for limit > 0 the leaderboard lists the first `limit` of ALL
\* students (those without recognitions included) ordered by
\* credits_received_total descending, ties by id ascending whatever the
\* endorsement counts; each entry carries the student's
\* credits_received_total, the number of recognitions received and the
\* number of endorsements on those recognitions.
LeaderboardRanking ==
    \A limit \in LimitInputs : limit > 0 =>
       LET out == get_leaderboard(limit)
           lb == out.leaderboard
           listed == {lb[k].student_id : k \in DOMAIN lb}
       IN /\ out.status = "ok"
          /\ Len(lb) = IF limit < Cardinality(Students)
                       THEN limit ELSE Cardinality(Students)
          /\ listed \subseteq Students
          /\ Cardinality(listed) = Len(lb)
          /\ \A k \in DOMAIN lb : k < Len(lb) =>
                RanksBefore(lb[k].student_id, lb[k + 1].student_id)
          /\ \A s \in Students \ listed : \A t \in listed : RanksBefore(t, s)
          /\ \A k \in DOMAIN lb :
                LET s == lb[k].student_id IN
                /\ lb[k].credits_received_total = students[s].credits_received_total
                /\ lb[k].recognition_count = Cardinality(Received(s))
                /\ lb[k].endorsement_count = Cardinality(EndorsementsReceived(s))

\* students 1 and 2 tie on 100 credits received and 2 has the endorsement:
\* 1 is still ranked first, limit 2 cuts off student 3, who received nothing
\* and is listed with zero counts when the limit allows
LeaderboardRankingWitness ==
    /\ Cardinality(Students) = 3
    /\ leaderboard(2) =
          <<[student_id |-> 1, credits_received_total |-> 100,
             recognition_count |-> 1, endorsement_count |-> 0],
            [student_id |-> 2, credits_received_total |-> 100,
             recognition_count |-> 1, endorsement_count |-> 1]>>
    /\ Len(leaderboard(10)) = 3
    /\ leaderboard(10)[3] =
          [student_id |-> 3, credits_received_total |-> 0,
           recognition_count |-> 0, endorsement_count |-> 0]

\* recognitions sent by student s
Sent(s) == {i \in DOMAIN recognitions : recognitions[i].sender_id = s}

\* C16: when createRecognition calls run concurrently and all of them have
\* returned, the students are in the state some serial order of the
\* recorded transfers leaves: with registrations and transfers only, every
\* balance is 100 plus the credits received minus the credits sent, the
\* monthly total is the credits sent and the lifetime total the credits
\* received (no update lost), balance >= 0 and monthly total <= 100.
ConcurrentTransfersSerializable ==
    (\A t \in Threads : threads[t] = Idle) =>
       \A s \in Students :
          /\ students[s].current_balance
                = DefaultBalance + SumCredits(Received(s)) - SumCredits(Sent(s))
          /\ students[s].monthly_sent_this_month = SumCredits(Sent(s))
          /\ students[s].credits_received_total = SumCredits(Received(s))
          /\ students[s].current_balance >= 0
          /\ students[s].monthly_sent_this_month <= 100

\* C17: ensureMonthlyReset performs a reset exactly when last_credit_reset
\* is null or its (year, month) is strictly earlier than the (year, month)
\* of now; days and elapsed time play no part: a student reset on the last
\* day of a month is reset again on the 1st of the next month, and a
\* student reset earlier in the current month is not.
ResetIffEarlierMonth ==
    \A s \in Students :
       LET last == students[s].last_credit_reset
           out == ensure_monthly_reset(CurrentDb, s)
       IN /\ out.performed <=>
                \/ last = None
                \/ last.year < now.year
                \/ last.year = now.year /\ last.month < now.month
          /\ (last # None /\ last.day = 28 /\ now.day = 1) => out.performed
          /\ (last.day = 1 /\ now.day = 28 /\ InMonthOf(last, now)) => ~out.performed

\* a student was reset on 28 December 2024 and it is now 1 January 2025:
\* the check resets the student again
ResetIffEarlierMonthWitness ==
    \E s \in Students :
       /\ students[s].last_credit_reset.day = 28
       /\ students[s].last_credit_reset.month = 12
       /\ now.day = 1
       /\ now.month = 1
       /\ now.year = students[s].last_credit_reset.year + 1
       /\ ensure_monthly_reset(CurrentDb, s).performed

\* the reset logs of student s filed under the given year and month
LogsOf(s, year, month) ==
    {i \in DOMAIN monthly_reset_logs :
        /\ monthly_reset_logs[i].student_id = s
        /\ monthly_reset_logs[i].year = year
        /\ monthly_reset_logs[i].month = month}

\* C18: when calls do not overlap there is at most one MonthlyResetLog per
\* (student, year, month), and a student has a log for the current month
\* exactly when ensureMonthlyReset would answer "not reset", which is when
\* last_credit_reset lies in the current month.
OneLogPerStudentMonth ==
    /\ \A i \in DOMAIN monthly_reset_logs :
          LogsOf(monthly_reset_logs[i].student_id,
                 monthly_reset_logs[i].year, monthly_reset_logs[i].month) = {i}
    /\ \A s \in Students :
          /\ LogsOf(s, now.year, now.month) # {}
                <=> ~ensure_monthly_reset(CurrentDb, s).performed
          /\ LogsOf(s, now.year, now.month) # {}
                <=> InMonthOf(students[s].last_credit_reset, now)

\* a student has a log for December 2024 and one for January 2025, it is
\* January, and a student registered since has none
OneLogPerStudentMonthWitness ==
    \E s \in Students, o \in Students :
       /\ LogsOf(s, now.year, now.month) # {}
       /\ LogsOf(s, now.year - 1, 12) # {}
       /\ ~ensure_monthly_reset(CurrentDb, s).performed
       /\ LogsOf(o, now.year, now.month) = {}
       /\ ensure_monthly_reset(CurrentDb, o).performed

\* C19: when runs of runMonthlyResetForAllStudents overlap within a month,
\* every student still has at most one MonthlyResetLog under the current
\* year and month: the reset, and with it the carry-forward, is applied
\* once per student and month.
ResetOncePerMonthWhenRunsOverlap ==
    \A s \in Students : Cardinality(LogsOf(s, now.year, now.month)) <= 1

\* C20: when a run of runMonthlyResetForAllStudents ends, normally or
\* because the reset of the student it was at failed, every other student
\* of the run has been reset for the current month: the resets committed
\* before a failure are kept and the students after it are still reset.
ResetFailureIsolated ==
    [][\A t \in Threads :
         (threads[t].pc = "reset" /\ threads'[t] = Idle) =>
            \A j \in DOMAIN threads[t].view :
               j # threads[t].i =>
                  InMonthOf(students'[j].last_credit_reset, now')
      ]_vars

\* C21: every Recognition that exists has credits >= 1 and a sender
\* different from its receiver.
RecognitionsWellFormed ==
    \A i \in DOMAIN recognitions :
       /\ recognitions[i].credits >= 1
       /\ recognitions[i].sender_id # recognitions[i].receiver_id
====
